---- MODULE Spec2Model ----
(***************************************************************************)
(* Task registry, scheduler loop, worker handlers and reaper of            *)
(* yt-dlp-host (src/src/server.py, src/src/yt_handler.py,                  *)
(* src/src/json_utils.py, src/src/storage_utils.py).                       *)
(*                                                                         *)
(* The registry is one JSON document.  Every writer calls load_tasks(),    *)
(* changes its private copy and calls save_tasks(copy); the model keeps    *)
(* each thread's private copy and makes every load and every save one      *)
(* step, so that the threads interleave exactly where the files do.        *)
(***************************************************************************)
EXTENDS Integers, Sequences, FiniteSets, Bags, TLC

\* ---------------------------------------------------------------- bounds
MaxTasks == 2          \* task ids a run may issue
MaxPasses == 2         \* passes of the scheduler loop a run follows
MaxSubmits == 2        \* executor.submit calls a run follows
MaxClock == 11         \* the clock stops here

\* ------------------------------------------------------ program constants
TASK_CLEANUP_TIME == 10
MAX_WORKERS == 4

Ids == 1..MaxTasks
NoTime == -1
\* datetime.fromisoformat('2000-01-01T00:00:00'): long before any reading
\* of the clock, so a record without started_time is always stale.
DefaultStarted == 0 - (TASK_CLEANUP_TIME + 1)

\* task_type values written by the request handlers of server.py
ServerTaskTypes == {"download", "get_info"}

VARIABLES
    USE_GCS,    \* config.USE_GCS, read from the environment at import
    store,      \* content of tasks.json: id -> task record
    now,        \* the last reading of datetime.now(), in minutes
    req,        \* request threads of server.py, one per issued id
    sched,      \* the process_tasks thread
    passes,     \* passes of its loop so far
    queue,      \* work items submitted to the executor, not yet started
    running,    \* handler invocations on the executor's threads (a bag:
                \* the threads of the pool are interchangeable)
    temp,       \* ids with a directory DOWNLOAD_DIR/<id>
    blobs,      \* ids with stored objects under <id>/
    submits,    \* id -> number of executor.submit calls for it
    reaped,     \* ids cleanup_task has deleted from the registry
    everLeft,   \* ids whose stored status has been other than 'waiting'
    returned,   \* what the handler invocations that returned have done
    reserved,   \* ids with an approved quota reservation
    ledger,     \* quota ledger: API key -> bytes consumed and window start
    estimate,   \* the last result of check_and_get_size
    verdict,    \* the last call of try_reserve and its answer
    boot,       \* where init_background_tasks is: "init", "orphans", "up"
    atStart     \* ids the registry held as 'processing' at the start

\* the state of the admission controller and of the size probe
admission == <<ledger, estimate, verdict>>

\* the state of the start of the process
startup == <<boot, atStart>>

vars == <<USE_GCS, store, now, req, sched, passes, queue, running, temp,
          blobs, submits, reaped, everLeft, returned, reserved, admission,
          startup>>

\* ------------------------------------------------------------ dictionaries
EmptyDict == [x \in {} |-> 0]

DictSet(tasks, t, r) ==
    [x \in (DOMAIN tasks) \cup {t} |-> IF x = t THEN r ELSE tasks[x]]

DictDel(tasks, t) ==
    [x \in (DOMAIN tasks) \ {t} |-> tasks[x]]

\* list(tasks.items()): the keys in the order of their insertion.  The ids
\* are named in the order in which the requests save them (download_save),
\* so this is the order of the ids.
Items(tasks) == SelectSeq([i \in 1..MaxTasks |-> i],
                          LAMBDA x : x \in DOMAIN tasks)

\* json_utils.load_tasks.  With USE_GCS, get_file('jsons/tasks.json') gives
\* None or the path of the local file (the name is no download), and
\* download_as_string on a path raises: both ways the result is {}.
load_tasks == IF USE_GCS THEN EmptyDict ELSE store

\* the document after json_utils.save_tasks(tasks).  With USE_GCS the call
\* of storage_manager.save_task_file raises (StorageManager has no such
\* method), the exception is printed and nothing is written.
save_tasks(tasks) == IF USE_GCS THEN store ELSE tasks

\* the record server.py stores for a new task
NewTask(type) ==
    [status |-> "waiting", task_type |-> type,
     started_time |-> NoTime, completed_time |-> NoTime,
     file |-> FALSE, error |-> FALSE,
     webhook_url |-> FALSE, webhook_status |-> "none"]

\* a private copy that is no longer read
Dead == EmptyDict

\* started_time as cleanup_processing_tasks reads it
StartedOf(task) ==
    IF task.started_time = NoTime THEN DefaultStarted ELSE task.started_time

\* the branch of process_tasks that submits a task of this type
HandlerOf(type) ==
    CASE type = "get_video" -> "get"
      [] type = "get_audio" -> "get"
      [] type = "get_info" -> "get_info"
      [] type = "get_live_video" -> "get_live"
      [] type = "get_live_audio" -> "get_live"
      [] OTHER -> "none"

\* what a write of the registry adds to the ids seen outside 'waiting'
LeftAfter(tasks) ==
    everLeft \cup {t \in DOMAIN tasks : tasks[t].status # "waiting"}

\* ------------------------------------------------- admission: constants
\* bytes are counted in units of 0.1 GiB
DEFAULT_MEMORY_QUOTA == 50
\* minutes
DEFAULT_MEMORY_QUOTA_RATE == 10

\* API keys with a ledger entry
Keys == {"k1", "k2"}

\* a ledger entry before the first reservation of its key
NewEntry == [consumed |-> 0, window_start |-> NoTime]

\* no call of check_and_get_size yet, no call of try_reserve yet
NoEstimate == -1
NoVerdict == [key |-> "", bytes |-> 0, prior |-> 0, approved |-> FALSE]

IdleReq == [pc |-> "idle", tasks |-> Dead]
IdleSched == [pc |-> "load", tasks |-> Dead, todo |-> <<>>, stale |-> <<>>]
\* a handler invocation at its first line
NewJob(t, fn) ==
    [pc |-> "start", task |-> t, fn |-> fn, tasks |-> Dead,
     raised |-> FALSE, writes |-> 0, notified |-> 0]

Init ==
    /\ USE_GCS \in BOOLEAN
    /\ store = EmptyDict
    /\ now = 0
    /\ req = [t \in Ids |-> IdleReq]
    /\ sched = IdleSched
    /\ passes = 0
    /\ queue = <<>>
    /\ running = EmptyBag
    /\ temp = {}
    /\ blobs = {}
    /\ submits = [t \in Ids |-> 0]
    /\ reaped = {}
    /\ everLeft = {}
    /\ returned = {}
    /\ reserved = {}
    /\ ledger = [k \in Keys |-> NewEntry]
    /\ estimate = NoEstimate
    /\ verdict = NoVerdict
    /\ boot = "up"
    /\ atStart = {}

\* ------------------------------------------------------------------ clock
\* time that may have passed since the last reading of the clock: none, the
\* stale timeout, or just more than it
ClockSteps == {0, TASK_CLEANUP_TIME, TASK_CLEANUP_TIME + 1}

\* a clock that may also be set back between two readings
Reads_either_way(d) ==
    /\ d \in ClockSteps
    /\ now' \in {now + d, now - d}
    /\ now' \in 0..MaxClock

\* datetime.now() never reads less than before
Reads(d) ==
    /\ d \in ClockSteps
    /\ now + d <= MaxClock
    /\ now' = now + d

\* ------------------------------------------- server.py: download, get_info
\* generate_random_id, load_tasks and the insertion into the private copy
download_load(t, type) ==
    /\ req[t].pc = "idle"
    /\ req' = [req EXCEPT ![t] =
                 [pc |-> "loaded",
                  tasks |-> DictSet(load_tasks, t, NewTask(type))]]
    /\ UNCHANGED <<USE_GCS, store, now, sched, passes, queue, running, temp,
                   blobs, submits, reaped, everLeft, returned, reserved,
                   admission, startup>>

\* save_tasks(tasks) and the reply that carries the task_id
download_save(t) ==
    /\ req[t].pc = "loaded"
    /\ \A u \in Ids : u < t => req[u].pc = "done"
    /\ store' = save_tasks(req[t].tasks)
    /\ everLeft' = LeftAfter(save_tasks(req[t].tasks))
    /\ req' = [req EXCEPT ![t] = [pc |-> "done", tasks |-> Dead]]
    /\ UNCHANGED <<USE_GCS, now, sched, passes, queue, running, temp, blobs,
                   submits, reaped, returned, reserved, admission, startup>>

\* -------------------------------------------------------------- scheduler
\* executor.submit calls so far, over the ids up to n
RECURSIVE SubmitsUpTo(_)
SubmitsUpTo(n) == IF n = 0 THEN 0 ELSE submits[n] + SubmitsUpTo(n - 1)

WaitingIn_or_processing(tasks) ==
    SelectSeq(Items(tasks),
              LAMBDA x : tasks[x].status \in {"waiting", "processing"})

WaitingIn(tasks) ==
    SelectSeq(Items(tasks), LAMBDA x : tasks[x].status = "waiting")

\* process_tasks, line 193: one load per pass
process_tasks_load ==
    /\ sched.pc = "load"
    /\ passes < MaxPasses
    /\ passes' = passes + 1
    /\ LET todo == WaitingIn(load_tasks) IN
         sched' = IF todo = <<>>
                  THEN [IdleSched EXCEPT !.pc = "cleanup"]
                  ELSE [pc |-> "iter", tasks |-> load_tasks, todo |-> todo,
                        stale |-> <<>>]
    /\ UNCHANGED <<USE_GCS, store, now, req, queue, running, temp, blobs,
                   submits, reaped, everLeft, returned, reserved,
                   admission, startup>>

\* lines 195-245 for the next 'waiting' task of the pass: update of the
\* private copy, save_tasks, executor.submit by task_type
process_tasks_submit(d) ==
    /\ sched.pc = "iter"
    /\ Reads(d)
    /\ LET t == Head(sched.todo)
           task == sched.tasks[t]
           tasks == DictSet(sched.tasks, t,
                       [task EXCEPT !.status = "processing",
                                    !.started_time = now + d])
           fn == HandlerOf(task.task_type)
           rest == Tail(sched.todo)
       IN  /\ fn # "none" => SubmitsUpTo(MaxTasks) < MaxSubmits
           /\ store' = save_tasks(tasks)
           /\ everLeft' = LeftAfter(save_tasks(tasks))
           /\ IF fn = "none"
              THEN UNCHANGED <<queue, submits>>
              ELSE /\ queue' = Append(queue, [task |-> t, fn |-> fn])
                   /\ submits' = [submits EXCEPT ![t] = @ + 1]
           /\ sched' = IF rest = <<>>
                       THEN [IdleSched EXCEPT !.pc = "cleanup"]
                       ELSE [sched EXCEPT !.tasks = tasks, !.todo = rest]
    /\ UNCHANGED <<USE_GCS, req, passes, running, temp, blobs, reaped,
                   returned, reserved, admission, startup>>

\* the 'processing' tasks cleanup_processing_tasks finds stalled
StaleIn(tasks, current_time) ==
    SelectSeq(Items(tasks),
              LAMBDA x : /\ tasks[x].status = "processing"
                         /\ current_time - StartedOf(tasks[x])
                              > TASK_CLEANUP_TIME)

\* cleanup_processing_tasks, lines 175-182
cleanup_processing_tasks(d) ==
    /\ sched.pc = "cleanup"
    /\ Reads(d)
    /\ LET stale == StaleIn(load_tasks, now + d) IN
         sched' = IF stale = <<>>
                  THEN IdleSched
                  ELSE [pc |-> "ct_load", tasks |-> Dead, todo |-> <<>>,
                        stale |-> stale]
    /\ UNCHANGED <<USE_GCS, store, req, passes, queue, running, temp, blobs,
                   submits, reaped, everLeft, returned, reserved,
                   admission, startup>>

\* cleanup_task, line 430
cleanup_task_load ==
    /\ sched.pc = "ct_load"
    /\ sched' = [sched EXCEPT !.pc = "ct_save", !.tasks = load_tasks]
    /\ UNCHANGED <<USE_GCS, store, now, req, passes, queue, running, temp,
                   blobs, submits, reaped, everLeft, returned, reserved,
                   admission, startup>>

\* cleanup_task, lines 433-442
cleanup_task_save ==
    /\ sched.pc = "ct_save"
    /\ LET t == Head(sched.stale)
           rest == Tail(sched.stale)
       IN  /\ blobs' = blobs \ {t}
           /\ temp' = temp \ {t}
           /\ IF t \in DOMAIN sched.tasks
              THEN /\ store' = save_tasks(DictDel(sched.tasks, t))
                   /\ everLeft' =
                        LeftAfter(save_tasks(DictDel(sched.tasks, t)))
                   /\ reaped' = reaped \cup {t}
              ELSE UNCHANGED <<store, everLeft, reaped>>
           /\ sched' = IF rest = <<>>
                       THEN IdleSched
                       ELSE [pc |-> "ct_load", tasks |-> Dead, todo |-> <<>>,
                             stale |-> rest]
    /\ UNCHANGED <<USE_GCS, now, req, passes, queue, running, submits,
                   returned, reserved, admission, startup>>

\* ------------------------------------------------------ executor's threads
Jobs == BagToSet(running)

\* the invocation j goes on as k
Step(j, k) == running' = (running (-) SetToBag({j})) (+) SetToBag({k})

\* the invocation j returns and its thread goes back to the pool
Return(j) ==
    /\ running' = running (-) SetToBag({j})
    /\ returned' = returned \cup {[task |-> j.task, raised |-> j.raised,
                                   writes |-> j.writes,
                                   notified |-> j.notified]}

\* a free thread of the pool starts the oldest submitted work item and the
\* handler (get, get_info, get_live) does its first load_tasks
get_info_load ==
    /\ queue # <<>>
    /\ BagCardinality(running) < MAX_WORKERS
    /\ LET t == Head(queue).task
           j == NewJob(t, Head(queue).fn)
           tasks == load_tasks
       IN  running' = running (+) SetToBag({
             IF t \in DOMAIN tasks
             THEN [j EXCEPT !.pc = "start_save",
                            !.tasks = DictSet(tasks, t,
                               [tasks[t] EXCEPT !.status = "processing"])]
             ELSE \* tasks[task_id] raises KeyError: outer except
                  [j EXCEPT !.pc = "err_load", !.raised = TRUE]})
    /\ queue' = Tail(queue)
    /\ UNCHANGED <<USE_GCS, store, now, req, sched, passes, temp, blobs,
                   submits, reaped, everLeft, returned, reserved,
                   admission, startup>>

\* save_tasks(tasks) after update(status='processing')
get_info_save(j) ==
    /\ j.pc = "start_save"
    /\ store' = save_tasks(j.tasks)
    /\ everLeft' = LeftAfter(save_tasks(j.tasks))
    /\ Step(j, [j EXCEPT !.pc = "run", !.tasks = Dead])
    /\ UNCHANGED <<USE_GCS, now, req, sched, passes, queue, temp, blobs,
                   submits, reaped, returned, reserved, admission, startup>>

\* os.makedirs(temp_path), the yt_dlp call and storage_manager.save_file.
\* save_file stores an object only for a destination it takes for a download
\* (the name holds 'video', 'audio', ...); the copy of <id>/info.json onto
\* itself raises.  yt_dlp and the upload raise or return.
get_info_run(j, ok) ==
    /\ j.pc = "run"
    /\ temp' = temp \cup {j.task}
    /\ blobs' = IF ok THEN blobs \cup {j.task} ELSE blobs
    /\ Step(j, IF ok THEN [j EXCEPT !.pc = "term_load"]
                     ELSE [j EXCEPT !.pc = "err_load", !.raised = TRUE])
    /\ UNCHANGED <<USE_GCS, store, now, req, sched, passes, queue, submits,
                   reaped, everLeft, returned, reserved, admission, startup>>

\* the second load_tasks of the handler and the update of its private copy
\* with status 'completed', completed_time and file
get_info_completed_load(j, d) ==
    /\ j.pc = "term_load"
    /\ Reads(d)
    /\ LET t == j.task
           tasks == load_tasks
       IN  IF t \in DOMAIN tasks
           THEN Step(j, [j EXCEPT !.pc = "term_save",
                                  !.tasks = DictSet(tasks, t,
                                     [tasks[t] EXCEPT
                                        !.status = "completed",
                                        !.completed_time = now + d,
                                        !.file = TRUE])])
           ELSE \* KeyError before the clock is read
                /\ d = 0
                /\ Step(j, [j EXCEPT !.pc = "err_load", !.raised = TRUE])
    /\ UNCHANGED <<USE_GCS, store, req, sched, passes, queue, temp, blobs,
                   submits, reaped, everLeft, returned, reserved,
                   admission, startup>>

\* save_tasks(tasks) of the terminal write
get_info_completed_save(j) ==
    /\ j.pc = "term_save"
    /\ store' = save_tasks(j.tasks)
    /\ everLeft' = LeftAfter(save_tasks(j.tasks))
    /\ Step(j, [j EXCEPT !.pc = "notify", !.tasks = Dead, !.writes = @ + 1])
    /\ UNCHANGED <<USE_GCS, now, req, sched, passes, queue, temp, blobs,
                   submits, reaped, returned, reserved, admission, startup>>

\* send_webhook_notification, lines 126-131, and shutil.rmtree(temp_path):
\* the record is gone or has no webhook_url, the call returns and so does
\* the handler
send_webhook_notification(j) ==
    /\ j.pc = "notify"
    /\ LET tasks == load_tasks
       IN  IF j.task \in DOMAIN tasks
           THEN ~tasks[j.task].webhook_url
           ELSE TRUE
    /\ temp' = temp \ {j.task}
    /\ Return([j EXCEPT !.notified = @ + 1])
    /\ UNCHANGED <<USE_GCS, store, now, req, sched, passes, queue, blobs,
                   submits, reaped, everLeft, reserved, admission, startup>>

\* handle_task_error, lines 51-57
handle_task_error_load(j, d) ==
    /\ j.pc = "err_load"
    /\ Reads(d)
    /\ LET t == j.task
           tasks == load_tasks
       IN  IF t \in DOMAIN tasks
           THEN /\ Step(j, [j EXCEPT !.pc = "err_save",
                                     !.tasks = DictSet(tasks, t,
                                        [tasks[t] EXCEPT
                                           !.status = "failed",
                                           !.error = TRUE,
                                           !.completed_time = now + d])])
                /\ UNCHANGED returned
           ELSE /\ d = 0
                /\ Return(j)
    /\ UNCHANGED <<USE_GCS, store, req, sched, passes, queue, temp, blobs,
                   submits, reaped, everLeft, reserved, admission, startup>>

\* handle_task_error, line 58, and the return of the handler
handle_task_error_save(j) ==
    /\ j.pc = "err_save"
    /\ store' = save_tasks(j.tasks)
    /\ everLeft' = LeftAfter(save_tasks(j.tasks))
    /\ Return([j EXCEPT !.tasks = Dead, !.writes = @ + 1])
    /\ UNCHANGED <<USE_GCS, now, req, sched, passes, queue, temp, blobs,
                   submits, reaped, reserved, admission, startup>>

\* ---------------------------------------------------------------- notifier
\* notify_webhook(webhook_url, data, max_retries=3, ...)
max_retries == 3

\* what one POST to the callback URL comes to (redirects apart): a 2xx
\* answer; a status of status_forcelist (408, 429, 500, 502, 503, 504); 413
\* with a Retry-After header, which urllib3 honours; another 4xx or 5xx
\* status; no connection; a read timeout or a broken connection
Outcomes == {"2xx", "status_forcelist", "retry_after", "status_other",
             "connect_error", "read_error"}

\* the outcomes after which urllib3's Retry increments and posts again
RetriedOutcomes == {"status_forcelist", "retry_after", "connect_error",
                    "read_error"}

\* Retried with every failure taken for a retryable one
Retried_any_failure(o, posts) == o # "2xx" /\ posts <= max_retries

\* Retry(total=max_retries): the POST number posts, which came to o, is
\* followed by another
Retried(o, posts) == o \in RetriedOutcomes /\ posts <= max_retries

\* the record of a task after lines 157-160
Annotated(task) ==
    [webhook_error |-> TRUE] @@ [task EXCEPT !.webhook_status = "failed"]

\* send_webhook_notification, lines 126-153, for a record with a
\* webhook_url: the registry is loaded and notify_webhook is called
send_webhook_notification_post(j) ==
    /\ j.pc = "notify"
    /\ LET tasks == load_tasks
       IN  /\ IF j.task \in DOMAIN tasks
              THEN tasks[j.task].webhook_url
              ELSE FALSE
           /\ Step(j, [tried |-> <<>>, valid |-> TRUE, delivered |-> FALSE]
                        @@ [j EXCEPT !.pc = "post", !.tasks = tasks,
                                     !.notified = @ + 1])
    /\ UNCHANGED <<USE_GCS, store, now, req, sched, passes, queue, temp,
                   blobs, submits, reaped, everLeft, returned, reserved,
                   admission, startup>>

\* notify_webhook, lines 110-121, for a URL requests refuses to prepare
\* (MissingSchema, InvalidURL): no POST is made
notify_webhook_invalid(j) ==
    /\ j.pc = "post"
    /\ j.tried = <<>>
    /\ Step(j, [j EXCEPT !.pc = "posted", !.valid = FALSE])
    /\ UNCHANGED <<USE_GCS, store, now, req, sched, passes, queue, temp,
                   blobs, submits, reaped, everLeft, returned, reserved,
                   admission, startup>>

\* notify_webhook, lines 110-121: one POST of session.post and what the
\* Retry strategy, raise_for_status and the except clause make of it
notify_webhook(j, o) ==
    /\ j.pc = "post"
    /\ LET tried == Append(j.tried, o) IN
         Step(j, IF Retried(o, Len(tried))
                 THEN [j EXCEPT !.tried = tried]
                 ELSE [j EXCEPT !.tried = tried, !.pc = "posted",
                                !.delivered = (o = "2xx")])
    /\ UNCHANGED <<USE_GCS, store, now, req, sched, passes, queue, temp,
                   blobs, submits, reaped, everLeft, returned, reserved,
                   admission, startup>>

\* send_webhook_notification, lines 155-161, then shutil.rmtree(temp_path)
\* and the return of the handler
send_webhook_notification_save(j) ==
    /\ j.pc = "posted"
    /\ IF j.delivered
       THEN UNCHANGED <<store, everLeft>>
       ELSE LET tasks == DictSet(j.tasks, j.task,
                                 Annotated(j.tasks[j.task]))
            IN  /\ store' = save_tasks(tasks)
                /\ everLeft' = LeftAfter(save_tasks(tasks))
    /\ temp' = temp \ {j.task}
    /\ Return(j)
    /\ UNCHANGED <<USE_GCS, now, req, sched, passes, queue, blobs, submits,
                   reaped, reserved, admission, startup>>

\* ----------------------------------------------------------- specification
Next ==
    \/ \E t \in Ids, type \in ServerTaskTypes : download_load(t, type)
    \/ \E t \in Ids : download_save(t)
    \/ process_tasks_load
    \/ \E d \in ClockSteps : process_tasks_submit(d)
    \/ \E d \in ClockSteps : cleanup_processing_tasks(d)
    \/ cleanup_task_load
    \/ cleanup_task_save
    \/ get_info_load
    \/ \E j \in Jobs : get_info_save(j)
    \/ \E j \in Jobs, ok \in BOOLEAN : get_info_run(j, ok)
    \/ \E j \in Jobs, d \in ClockSteps : get_info_completed_load(j, d)
    \/ \E j \in Jobs : get_info_completed_save(j)
    \/ \E j \in Jobs : send_webhook_notification(j)
    \/ \E j \in Jobs, d \in ClockSteps : handle_task_error_load(j, d)
    \/ \E j \in Jobs : handle_task_error_save(j)

Spec == Init /\ [][Next]_vars

TypeOK ==
    /\ DOMAIN store \subseteq Ids
    /\ now \in 0..MaxClock
    /\ passes \in 0..MaxPasses
    /\ SubmitsUpTo(MaxTasks) <= MaxSubmits

\* ------------------------------------------- specification of the notifier
\* A registry that holds a get_info task with or without a webhook_url (the
\* record send_webhook_notification reads; server.py stores no webhook_url),
\* dispatched by the scheduler and now run by its handler, while the server
\* goes on taking requests.
NotifierInit ==
    /\ USE_GCS = FALSE
    /\ \E w \in BOOLEAN :
          store = DictSet(EmptyDict, 1,
                     [NewTask("get_info") EXCEPT !.status = "processing",
                                                 !.started_time = 0,
                                                 !.webhook_url = w])
    /\ now = 0
    /\ req = [t \in Ids |-> IF t = 1 THEN [IdleReq EXCEPT !.pc = "done"]
                                      ELSE IdleReq]
    /\ sched = IdleSched
    /\ passes = 1
    /\ queue = <<>>
    /\ running = SetToBag({[NewJob(1, "get_info") EXCEPT !.pc = "run"]})
    /\ temp = {}
    /\ blobs = {}
    /\ submits = [t \in Ids |-> IF t = 1 THEN 1 ELSE 0]
    /\ reaped = {}
    /\ everLeft = {1}
    /\ returned = {}
    /\ reserved = {}
    /\ ledger = [k \in Keys |-> NewEntry]
    /\ estimate = NoEstimate
    /\ verdict = NoVerdict
    /\ boot = "up"
    /\ atStart = {}

NotifierNext ==
    \/ \E t \in Ids, type \in ServerTaskTypes : download_load(t, type)
    \/ \E t \in Ids : download_save(t)
    \/ \E j \in Jobs, ok \in BOOLEAN : get_info_run(j, ok)
    \/ \E j \in Jobs, d \in ClockSteps : get_info_completed_load(j, d)
    \/ \E j \in Jobs : get_info_completed_save(j)
    \/ \E j \in Jobs : send_webhook_notification(j)
    \/ \E j \in Jobs : send_webhook_notification_post(j)
    \/ \E j \in Jobs : notify_webhook_invalid(j)
    \/ \E j \in Jobs, o \in Outcomes : notify_webhook(j, o)
    \/ \E j \in Jobs : send_webhook_notification_save(j)
    \/ \E j \in Jobs, d \in ClockSteps : handle_task_error_load(j, d)
    \/ \E j \in Jobs : handle_task_error_save(j)

SpecNotifier == NotifierInit /\ [][NotifierNext]_vars

\* ------------------------------------------------- start of the process
\* ids of an earlier run of the process: in the registry it left, or only
\* in its artifacts
StartIds == {1}

\* started_time of a record that was 'processing' when the process stopped:
\* just before, longer ago than the timeout, or not written
StartedAtStop == {0, DefaultStarted, NoTime}

\* the records an earlier run leaves in the registry
StartRecords ==
    {NewTask(type) : type \in ServerTaskTypes}
      \cup {[NewTask("get_info") EXCEPT !.status = "processing",
                                        !.started_time = s] :
              s \in StartedAtStop}
      \cup {[NewTask("get_info") EXCEPT !.status = "completed",
                                        !.started_time = 0,
                                        !.completed_time = 0,
                                        !.file = TRUE],
            [NewTask("get_info") EXCEPT !.status = "failed",
                                        !.started_time = 0,
                                        !.completed_time = 0,
                                        !.error = TRUE]}

\* the registries an earlier run leaves: each of its ids with a record or
\* without.  With USE_GCS no save_tasks of an earlier run wrote anything.
StartRegistries ==
    IF USE_GCS THEN {EmptyDict}
    ELSE UNION {[S -> StartRecords] : S \in SUBSET StartIds}

\* the state in which init_background_tasks is called
RestartInit ==
    /\ USE_GCS \in BOOLEAN
    /\ store \in StartRegistries
    /\ temp \in SUBSET StartIds
    /\ blobs \in SUBSET StartIds
    /\ now = 0
    /\ req = [t \in Ids |-> IF t \in StartIds
                           THEN [IdleReq EXCEPT !.pc = "done"]
                           ELSE IdleReq]
    /\ sched = IdleSched
    /\ passes = 0
    /\ queue = <<>>
    /\ running = EmptyBag
    /\ submits = [t \in Ids |-> 0]
    /\ reaped = {}
    /\ everLeft = {t \in DOMAIN store : store[t].status # "waiting"}
    /\ returned = {}
    /\ reserved = {}
    /\ ledger = [k \in Keys |-> NewEntry]
    /\ estimate = NoEstimate
    /\ verdict = NoVerdict
    /\ boot = "init"
    /\ atStart = {t \in DOMAIN store : store[t].status = "processing"}

\* the ids of a sequence of ids
Range(seq) == {seq[i] : i \in DOMAIN seq}

\* a registry without the records of the ids of S
DictDelAll(tasks, S) == [x \in (DOMAIN tasks) \ S |-> tasks[x]]

\* init_background_tasks, line 473: cleanup_processing_tasks and its calls
\* of cleanup_task, with no other thread of the process started yet
init_cleanup_processing_tasks(d) ==
    /\ boot = "init"
    /\ Reads(d)
    /\ LET stale == Range(StaleIn(load_tasks, now + d)) IN
         /\ blobs' = blobs \ stale
         /\ temp' = temp \ stale
         /\ IF stale = {}
            THEN UNCHANGED <<store, everLeft>>
            ELSE /\ store' = save_tasks(DictDelAll(load_tasks, stale))
                 /\ everLeft' =
                      LeftAfter(save_tasks(DictDelAll(load_tasks, stale)))
         /\ reaped' = reaped \cup stale
    /\ boot' = "orphans"
    /\ UNCHANGED <<USE_GCS, req, sched, passes, queue, running, submits,
                   returned, reserved, admission, atStart>>

\* init_background_tasks, line 474: cleanup_orphaned_folders; line 475
\* starts the process_tasks thread and the server takes requests
cleanup_orphaned_folders ==
    /\ boot = "orphans"
    /\ LET task_ids == DOMAIN load_tasks IN
         /\ temp' = temp \cap task_ids
         /\ blobs' = IF USE_GCS THEN blobs \cap task_ids ELSE blobs
    /\ boot' = "up"
    /\ UNCHANGED <<USE_GCS, store, now, req, sched, passes, queue, running,
                   submits, reaped, everLeft, returned, reserved, admission,
                   atStart>>

\* the process from its start: init_background_tasks, then the threads
RestartNext ==
    \/ \E d \in ClockSteps : init_cleanup_processing_tasks(d)
    \/ cleanup_orphaned_folders
    \/ boot = "up" /\ Next

SpecRestart == RestartInit /\ [][RestartNext]_vars

\* ------------------------------------------------------- colliding request
\* download, lines 29-38, of the request thread u for which
\* generate_random_id returns the id t that the registry holds: load_tasks
\* and the assignment tasks[task_id] = {...} in the private copy.  Its save
\* is download_save(u); the id u is then never issued.
download_collide(u, t, type) ==
    /\ req[u].pc = "idle"
    /\ t \in DOMAIN load_tasks
    /\ req' = [req EXCEPT ![u] =
                 [id |-> t] @@
                 [pc |-> "loaded",
                  tasks |-> DictSet(load_tasks, t, NewTask(type))]]
    /\ UNCHANGED <<USE_GCS, store, now, sched, passes, queue, running, temp,
                   blobs, submits, reaped, everLeft, returned, reserved,
                   admission, startup>>

\* the process with requests whose random ids may collide
CollisionNext ==
    \/ \E u \in Ids, t \in Ids, type \in ServerTaskTypes :
          download_collide(u, t, type)
    \/ Next

SpecCollision == Init /\ [][CollisionNext]_vars

\* ------------------------------------------------------------ failing reads
\* The server takes requests over a tasks.json that an earlier run left, in
\* either mode: USE_GCS comes from the environment of the run, the file
\* stays where SYSTEM_FILES_DIR or DOWNLOAD_DIR is.
ReadFailureInit ==
    /\ USE_GCS \in BOOLEAN
    /\ store \in UNION {[S -> StartRecords] : S \in SUBSET StartIds}
    /\ temp = {}
    /\ blobs = {}
    /\ now = 0
    /\ req = [t \in Ids |-> IF t \in StartIds
                           THEN [IdleReq EXCEPT !.pc = "done"]
                           ELSE IdleReq]
    /\ sched = IdleSched
    /\ passes = 0
    /\ queue = <<>>
    /\ running = EmptyBag
    /\ submits = [t \in Ids |-> 0]
    /\ reaped = {}
    /\ everLeft = {t \in DOMAIN store : store[t].status # "waiting"}
    /\ returned = {}
    /\ reserved = {}
    /\ ledger = [k \in Keys |-> NewEntry]
    /\ estimate = NoEstimate
    /\ verdict = NoVerdict
    /\ boot = "up"
    /\ atStart = {}

\* load_tasks, lines 10-19: with USE_GCS and a tasks.json in place, get_file
\* gives its path, download_as_string raises and the except clause
\* returns {}
LoadFailsSilently == USE_GCS /\ store # EmptyDict

\* status, lines 66-70, as the request thread u for the id t.  raises: the
\* open or json.load of load_tasks, lines 21-23, raises (the file is being
\* rewritten, or is damaged) and Flask answers 500.
status(u, t, raises) ==
    /\ req[u].pc = "idle"
    /\ raises => ~USE_GCS
    /\ req' = [req EXCEPT ![u] =
                 [route |-> "status", id |-> t,
                  failed |-> raises \/ LoadFailsSilently,
                  answer |-> IF raises THEN "500"
                             ELSE IF t \in DOMAIN load_tasks THEN "200"
                             ELSE "404"]
                 @@ [pc |-> "done", tasks |-> Dead]]
    /\ UNCHANGED <<USE_GCS, store, now, sched, passes, queue, running, temp,
                   blobs, submits, reaped, everLeft, returned, reserved,
                   admission, startup>>

\* download, line 30, with a load_tasks that raises: Flask answers 500 and
\* line 39 is not reached
download_load_raises(t) ==
    /\ req[t].pc = "idle"
    /\ ~USE_GCS
    /\ req' = [req EXCEPT ![t] =
                 [route |-> "download", id |-> t, failed |-> TRUE,
                  answer |-> "500"]
                 @@ [pc |-> "done", tasks |-> Dead]]
    /\ UNCHANGED <<USE_GCS, store, now, sched, passes, queue, running, temp,
                   blobs, submits, reaped, everLeft, returned, reserved,
                   admission, startup>>

ReadFailureNext ==
    \/ \E u \in Ids, t \in Ids, raises \in BOOLEAN : status(u, t, raises)
    \/ \E t \in Ids : download_load_raises(t)
    \/ Next

SpecReadFailure == ReadFailureInit /\ [][ReadFailureNext]_vars

\* ------------------------------------------------------ scheduler progress
\* a loop that an exception in a pass ends
process_tasks_raises_and_stops ==
    /\ sched.pc = "iter"
    /\ passes < MaxPasses
    /\ sched' = [IdleSched EXCEPT !.pc = "stopped"]
    /\ UNCHANGED <<USE_GCS, store, now, req, passes, queue, running, temp,
                   blobs, submits, reaped, everLeft, returned, reserved,
                   admission, startup>>

\* process_tasks, lines 250-252: save_tasks or executor.submit raises in a
\* pass, the except clause logs the error and sleeps, and the loop goes on
\* with its next pass.  A run follows a failing pass only while it still
\* follows a later pass.
process_tasks_raises ==
    /\ sched.pc = "iter"
    /\ passes < MaxPasses
    /\ sched' = IdleSched
    /\ UNCHANGED <<USE_GCS, store, now, req, passes, queue, running, temp,
                   blobs, submits, reaped, everLeft, returned, reserved,
                   admission, startup>>

\* a step of the process_tasks thread that is no exception
SchedulerStep ==
    \/ process_tasks_load
    \/ \E d \in ClockSteps : process_tasks_submit(d)
    \/ \E d \in ClockSteps : cleanup_processing_tasks(d)
    \/ cleanup_task_load
    \/ cleanup_task_save

ProgressNext ==
    \/ process_tasks_raises
    \/ Next

\* the process_tasks thread is a thread of its own (line 475) and is given
\* the processor again and again
SpecProgress == Init /\ [][ProgressNext]_vars /\ WF_vars(SchedulerStep)

\* -------------------------------------------------------------- size probe
\* a size yt_dlp reports as None; a key it does not report reads as 0
NoSize == -1
\* 48 units with the 10% buffer are more than the default quota
SizeValues == {NoSize, 0, 5, 14, 48}
ApproxValues == {NoSize, 0, 5}

\* the formats of an info dict: filesize and filesize_approx of each
Formats == [filesize : SizeValues, filesize_approx : ApproxValues]
\* the audio format of a merged download
AudioFormats == [filesize : {NoSize, 0, 14}, filesize_approx : {NoSize, 0}]

\* what ydl.extract_info does: it raises, or returns an info dict with
\* 'requested_formats' (merged) or with the sizes of its single format
ProbeInfos ==
    [raises : {TRUE}, merged : {FALSE}, formats : {<<>>}]
      \cup [raises : {FALSE}, merged : {FALSE},
            formats : {<<f>> : f \in Formats}]
      \cup [raises : {FALSE}, merged : {TRUE},
            formats : {<<>>} \cup {<<f, g>> : f \in Formats,
                                              g \in AudioFormats}]

\* f.get('filesize', 0) or f.get('filesize_approx', 0)
SizeOf(f) ==
    IF f.filesize \notin {NoSize, 0} THEN f.filesize ELSE f.filesize_approx

RECURSIVE SumSizes(_)
SumSizes(fs) ==
    IF fs = <<>> THEN 0 ELSE SizeOf(Head(fs)) + SumSizes(Tail(fs))

\* check_and_get_size: int(total_size * 1.1), and 0 when extract_info raises
\* or when a size is None (the sum or the product raises TypeError)
check_and_get_size(info) ==
    IF info.raises \/ \E i \in DOMAIN info.formats :
                         SizeOf(info.formats[i]) = NoSize
    THEN 0
    ELSE (SumSizes(info.formats) * 11) \div 10

\* a call of check_and_get_size
probe(info) ==
    /\ estimate' = check_and_get_size(info)
    /\ verdict' = NoVerdict
    /\ UNCHANGED <<USE_GCS, store, now, req, sched, passes, queue, running,
                   temp, blobs, submits, reaped, everLeft, returned, reserved,
                   ledger, startup>>

\* ---------------------------------------------------- admission controller
quota_ceiling(key) == DEFAULT_MEMORY_QUOTA

\* the window of an entry is over at current_time
Expired(entry, current_time) ==
    \/ entry.window_start = NoTime
    \/ current_time - entry.window_start >= DEFAULT_MEMORY_QUOTA_RATE

\* Reserve without the reset of an expired window
Reserve_accumulating(entry, estimated_bytes, current_time) ==
    [consumed |-> entry.consumed + estimated_bytes,
     window_start |-> IF Expired(entry, current_time)
                      THEN current_time ELSE entry.window_start]

\* the entry of a key after an approved reservation at current_time
Reserve(entry, estimated_bytes, current_time) ==
    IF Expired(entry, current_time)
    THEN [consumed |-> estimated_bytes, window_start |-> current_time]
    ELSE [entry EXCEPT !.consumed = @ + estimated_bytes]

\* Fits with the ceiling itself refused
Fits_below(key, entry, estimated_bytes, current_time) ==
    Reserve(entry, estimated_bytes, current_time).consumed
        < quota_ceiling(key)

\* the reservation fits under the ceiling of the key
Fits(key, entry, estimated_bytes, current_time) ==
    Reserve(entry, estimated_bytes, current_time).consumed
        <= quota_ceiling(key)

\* try_reserve(key, estimated_bytes) -> Approved | Denied
try_reserve(key, estimated_bytes, d) ==
    /\ estimated_bytes # NoEstimate
    /\ Reads(d)
    /\ LET ok == Fits(key, ledger[key], estimated_bytes, now + d) IN
         /\ ledger' = IF ok
                      THEN [ledger EXCEPT ![key] =
                              Reserve(@, estimated_bytes, now + d)]
                      ELSE ledger
         /\ verdict' = [key |-> key, bytes |-> estimated_bytes,
                        prior |-> ledger[key].consumed, approved |-> ok]
    /\ UNCHANGED <<USE_GCS, store, req, sched, passes, queue, running, temp,
                   blobs, submits, reaped, everLeft, returned, reserved,
                   estimate, startup>>

\* the size probe and the admission controller on their own: the scheduler
\* of yt_handler.py calls neither
AdmissionNext ==
    \/ \E info \in ProbeInfos : probe(info)
    \/ \E key \in Keys, d \in ClockSteps : try_reserve(key, estimate, d)

SpecAdmission == Init /\ [][AdmissionNext]_vars

\* ------------------------------------------------------------ observations
\* the record of t in a registry, as a set: empty when t is not a key
Rec(tasks, t) == IF t \in DOMAIN tasks THEN {tasks[t]} ELSE {}

\* copies of the invocation j in a bag of invocations
Copies(B, j) == IF j \in BagToSet(B) THEN B[j] ELSE 0

\* this step is a save_tasks by a thread that mutates the record of t
RequestSaves(t) == req[t].pc = "loaded" /\ req'[t].pc = "done"
SchedulerSaves(t) ==
    sched.pc = "iter" /\ Head(sched.todo) = t /\ sched' # sched
ReaperSaves(t) ==
    sched.pc = "ct_save" /\ Head(sched.stale) = t /\ sched' # sched
HandlerSaves(t, pcs) ==
    \E j \in Jobs : /\ j.task = t
                    /\ j.pc \in pcs
                    /\ Copies(running', j) < Copies(running, j)
Saves(t) ==
    \/ RequestSaves(t)
    \/ SchedulerSaves(t)
    \/ ReaperSaves(t)
    \/ HandlerSaves(t, {"start_save", "term_save", "err_save"})

\* C1: once the stored status of a task has been other than 'waiting', no
\* later state of the registry shows the task 'waiting'.
NoReturnToWaiting ==
    \A t \in everLeft :
        t \in DOMAIN store => store[t].status # "waiting"

\* C2: a save changes the record of the id its writer mutates and of no
\* other id, so the registry is the pointwise merge of the mutations.
NoCrossIdLoss ==
    [][\A u \in Ids : Rec(store', u) # Rec(store, u) => Saves(u)]_vars

\* C3: each task id is submitted to the worker pool at most once.
AtMostOneSubmit == \A t \in Ids : submits[t] <= 1

\* C4: a task whose creation has returned its id stays in the registry
\* until the reaper deletes it.
CreatedNeverLost ==
    \A t \in Ids :
        (req[t].pc = "done" /\ t \notin reaped) => t \in DOMAIN store

\* the lifecycle fields of a task record
Lifecycle(task) ==
    <<task.status, task.started_time, task.completed_time, task.file,
      task.error>>

TerminalStatus == {"completed", "error"}

\* C5: once the stored status of a task is 'completed' or 'error', no step
\* changes its lifecycle fields; the record only goes when the reaper
\* deletes it.
TerminalIsAbsorbing ==
    [][\A t \in DOMAIN store :
          store[t].status \in TerminalStatus =>
              IF t \in DOMAIN store'
              THEN Lifecycle(store'[t]) = Lifecycle(store[t])
              ELSE ReaperSaves(t)]_vars

\* the record of t is 'processing' and older than the timeout
IsStale(tasks, t, current_time) ==
    /\ t \in DOMAIN tasks
    /\ tasks[t].status = "processing"
    /\ current_time - StartedOf(tasks[t]) > TASK_CLEANUP_TIME

\* C6: the reap of a task that is 'processing' and older than the timeout
\* leaves it in the registry with status 'error'.
StaleReapedToError ==
    [][\A t \in Ids :
          (ReaperSaves(t) /\ IsStale(store, t, now)) =>
              (t \in DOMAIN store' /\ store'[t].status = "error")]_vars

\* C7: the terminal write of a handler whose task the reaper has already
\* reaped changes nothing in the registry.
LateWriteIsNoOp ==
    [][\A t \in reaped :
          HandlerSaves(t, {"term_save", "err_save"}) =>
              Rec(store', t) = Rec(store, t)]_vars

\* C8: every handler invocation that has returned, on the success path and
\* on the failure path, made one terminal write and one call of the
\* notifier.
OneWriteOneNotification ==
    \A r \in returned : r.writes = 1 /\ r.notified = 1

\* C9: every task the scheduler has moved to 'processing' (it alone sets
\* started_time) has been handed to a worker.
DispatchedIsSubmitted ==
    \A t \in DOMAIN store :
        store[t].started_time # NoTime => submits[t] >= 1

\* C10: a task is submitted to the worker pool only with an approved
\* reservation.
SubmittedIsReserved ==
    \A t \in Ids : submits[t] >= 1 => t \in reserved

\* this step is the call try_reserve(key, estimate) with the clock d later
Reserving(key, d) == verdict'.key = key /\ try_reserve(key, estimate, d)

\* C11: try_reserve within an unexpired window is approved if and only if
\* consumed_in_window + estimated_bytes <= the ceiling of the key; on
\* approval consumed_in_window grows by exactly estimated_bytes, on denial
\* the ledger entry is unchanged; the entries of the other keys never change.
ApprovedIffUnderCeiling ==
    [][\A key \in Keys, d \in ClockSteps :
          (Reserving(key, d) /\ ~Expired(ledger[key], now')) =>
              LET under == ledger[key].consumed + estimate
                              <= quota_ceiling(key)
              IN  /\ verdict'.approved = under
                  /\ under => ledger'[key] =
                        [ledger[key] EXCEPT !.consumed = @ + estimate]
                  /\ ~under => ledger'[key] = ledger[key]
                  /\ \A k \in Keys \ {key} : ledger'[k] = ledger[k]]_vars

\* C11, the case of the spec: 4 GiB consumed under a ceiling of 5 GiB, and
\* 0.5 GiB are approved and make 4.5 GiB.
HalfGiBApproved ==
    /\ verdict.approved
    /\ verdict.prior = 40
    /\ verdict.bytes = 5
    /\ ledger[verdict.key].consumed = 45

\* C12: a reservation granted when window_duration has passed since the
\* first reservation of the window makes consumed_in_window exactly its own
\* estimate and starts the window anew, whatever was consumed before.  (An
\* estimate over the ceiling is denied and makes no reservation.)
ExpiredWindowResets ==
    [][\A key \in Keys, d \in ClockSteps :
          (/\ Reserving(key, d)
           /\ ledger[key].window_start # NoTime
           /\ now' - ledger[key].window_start >= DEFAULT_MEMORY_QUOTA_RATE
           /\ verdict'.approved) =>
              ledger'[key] = [consumed |-> estimate,
                              window_start |-> now']]_vars

\* C12: a reservation has reset a window whose consumption would have
\* refused it.
ResetAfterFullWindow ==
    /\ verdict.approved
    /\ verdict.bytes > 0
    /\ verdict.prior + verdict.bytes > DEFAULT_MEMORY_QUOTA
    /\ ledger[verdict.key] = [consumed |-> verdict.bytes,
                              window_start |-> now]

\* C13: the estimate check_and_get_size hands to admission is never zero,
\* also when the probe raises or reports no size, so that no reservation of
\* zero bytes is approved.
EstimateNeverZero ==
    /\ estimate # 0
    /\ verdict.approved => verdict.bytes # 0

\* the invocation j leaves the pool in this step
Returns(j) == Copies(running', j) < Copies(running, j)

\* C14: when the callback endpoint fails twice and then succeeds, the
\* record of the task says webhook_status = 'delivered' once
\* send_webhook_notification has returned.
DeliveredIsRecorded ==
    [][\A j \in Jobs :
          (/\ j.pc = "posted"
           /\ Len(j.tried) = 3
           /\ j.tried[3] = "2xx"
           /\ Returns(j)) =>
              /\ j.task \in DOMAIN store'
              /\ store'[j.task].webhook_status = "delivered"]_vars

\* C15: when every delivery attempt has failed, the annotation leaves the
\* record of the task with webhook_status = 'failed' and a cause, and with
\* the status, times and result the registry held before the annotation.
FailureAnnotatedOnly ==
    [][\A j \in Jobs :
          (j.pc = "posted" /\ ~j.delivered /\ Returns(j)) =>
              /\ j.task \in DOMAIN store'
              /\ store'[j.task].webhook_status = "failed"
              /\ "webhook_error" \in DOMAIN store'[j.task]
              /\ j.task \in DOMAIN store
              /\ Lifecycle(store'[j.task]) = Lifecycle(store[j.task])]_vars

\* a call of notify_webhook keeps to its budget of POSTs, posts again only
\* after an outcome of the set retryable, and ends with an answer: delivered
\* after a 2xx, failed after anything else
RetryBudget(retryable) ==
    \A j \in Jobs :
        j.pc \in {"post", "posted"} =>
            /\ Len(j.tried) <= max_retries + 1
            /\ \A i \in 1..(Len(j.tried) - 1) : j.tried[i] \in retryable
            /\ Len(j.tried) = max_retries + 1 => j.pc = "posted"
            /\ j.pc = "posted" =>
                  j.delivered = (/\ j.tried # <<>>
                                 /\ j.tried[Len(j.tried)] = "2xx")

NotifiedOnlyWhenTerminal ==
    [][\A j \in Jobs :
          send_webhook_notification_post(j) =>
              /\ j.task \in DOMAIN store
              /\ store[j.task].status \in TerminalStatus]_vars

\* C18: after cleanup_orphaned_folders no local folder and no stored object
\* is left under an id that is absent from the registry, and the folders
\* and objects of the ids in the registry are all still there.
OrphansRemovedOthersKept ==
    [][cleanup_orphaned_folders =>
          /\ \A t \in temp' \cup blobs' : t \in DOMAIN store'
          /\ \A t \in DOMAIN store' : /\ t \in temp => t \in temp'
                                      /\ t \in blobs => t \in blobs']_vars

\* C19: a pass of the scheduler loop takes every task that is 'completed'
\* or 'error' and older than the retention window (TASK_CLEANUP_TIME, the
\* only window of config.py) for deletion with its artifacts.
ExpiredTerminalIsDeleted ==
    [][\A d \in ClockSteps :
          cleanup_processing_tasks(d) =>
              \A t \in DOMAIN store :
                  (/\ store[t].status \in TerminalStatus
                   /\ now' - store[t].completed_time > TASK_CLEANUP_TIME) =>
                      t \in Range(sched'.stale)]_vars

\* C20: a task the registry holds as 'processing' when the process starts is
\* never submitted to the worker pool; its record stays as it is until it
\* is older than the stale timeout, and it is the reaper that then takes it
\* and deletes it.
ProcessingAtStartLeftToReaper ==
    [][\A t \in atStart :
          /\ submits'[t] = 0
          /\ (t \notin reaped /\ Rec(store', t) # Rec(store, t)) =>
                /\ t \notin DOMAIN store'
                /\ IsStale(store, t, now')
                /\ boot = "init" \/ ReaperSaves(t)
          /\ \A d \in ClockSteps :
                (cleanup_processing_tasks(d) /\ IsStale(store, t, now')) =>
                    t \in Range(sched'.stale)]_vars

\* C20: a pass of the scheduler loop is about to delete a task that was
\* 'processing' at the start and has not been submitted.
StartTaskReapedByPass ==
    /\ boot = "up"
    /\ sched.pc = "ct_save"
    /\ Head(sched.stale) \in atStart \ reaped
    /\ submits[Head(sched.stale)] = 0
    /\ IsStale(store, Head(sched.stale), now)

\* C21: a request that creates a task under an id the registry holds leaves
\* the record of that id as it was (the creation is rejected, nothing is
\* overwritten).
CreateNeverOverwrites ==
    [][\A u \in Ids :
          (/\ req[u].pc = "loaded"
           /\ req'[u].pc = "done"
           /\ "id" \in DOMAIN req[u]) =>
              (req[u].id \in DOMAIN store =>
                  Rec(store', req[u].id) = Rec(store, req[u].id))]_vars

\* C22: every stored task with status 'completed' has a completed_time, and
\* it is not earlier than the started_time of the record.
CompletedAfterStarted ==
    \A t \in DOMAIN store :
        store[t].status = "completed" =>
            /\ store[t].completed_time # NoTime
            /\ store[t].started_time # NoTime =>
                  store[t].completed_time >= store[t].started_time

\* C22: a task that was submitted twice, the second time later than the
\* first, is stored as 'completed' with both timestamps.
CompletedAfterSecondStart ==
    \E t \in DOMAIN store :
        /\ store[t].status = "completed"
        /\ submits[t] = 2
        /\ store[t].started_time > 0
        /\ store[t].completed_time >= store[t].started_time

\* C23: the status of every stored task is 'waiting', 'processing',
\* 'completed' or 'error'; a handler that fails leaves 'error'.
StatusInDomain ==
    \A t \in DOMAIN store :
        store[t].status \in {"waiting", "processing"} \cup TerminalStatus

\* C24: a request whose load of the registry failed does not answer 'Task ID
\* not found' for a task the registry holds, and where the load fails no
\* save takes a stored task out of the registry.
FailedReadIsNotEmptyRegistry ==
    [][/\ \A u \in Ids :
            (/\ req[u].pc = "idle"
             /\ req'[u].pc = "done"
             /\ req'[u].failed
             /\ req'[u].id \in DOMAIN store) => req'[u].answer # "404"
       /\ LoadFailsSilently => DOMAIN store \subseteq DOMAIN store']_vars

\* C25: an id that cleanup_task has removed from the registry is never in
\* the registry again.
DeletedStaysDeleted == \A t \in reaped : t \notin DOMAIN store

\* C26: when cleanup_task deletes a record, the record is 'processing' and
\* has been so for longer than TASK_CLEANUP_TIME: its started_time is that
\* much before the present time, and a record without started_time is not
\* deleted before the process itself has run for that long.
ReapedOnlyIfStale ==
    [][\A t \in Ids :
          (/\ ReaperSaves(t)
           /\ t \in DOMAIN store
           /\ t \notin DOMAIN store') =>
              /\ store[t].status = "processing"
              /\ now - (IF store[t].started_time = NoTime
                        THEN 0 ELSE store[t].started_time)
                   > TASK_CLEANUP_TIME]_vars

\* the registry holds the task t as 'waiting'
Waiting(t) == t \in DOMAIN store /\ store[t].status = "waiting"

\* the run has made all the executor.submit calls it follows
SubmitBoundHit == SubmitsUpTo(MaxTasks) = MaxSubmits

\* C27: the scheduler thread comes back to the start of its loop from every
\* point of a pass, also after an exception, and a task that is stored as
\* 'waiting' when a pass is about to start is moved out of 'waiting' (as far
\* as the run follows the calls of executor.submit).
SchedulerProgress ==
    /\ (sched.pc # "load") ~> (sched.pc = "load" \/ SubmitBoundHit)
    /\ \A t \in Ids :
          (Waiting(t) /\ sched.pc = "load" /\ passes < MaxPasses)
              ~> (~Waiting(t) \/ SubmitBoundHit)

\* C27: a task that a stale save put back to 'waiting' has been taken again
\* by a later pass and is stored as 'processing'.
TakenAgainByLaterPass ==
    \E t \in DOMAIN store :
        /\ submits[t] = 2
        /\ passes = MaxPasses
        /\ store[t].status = "processing"
        /\ store[t].started_time # NoTime

\* nothing is in flight and nothing is left to do: no request between its
\* load and its save, no work item queued or running, the scheduler between
\* two passes, no task 'waiting' or 'processing'.  Every further pass of
\* the loop finds nothing and changes nothing.
AtRest ==
    /\ \A u \in Ids : req[u].pc # "loaded"
    /\ queue = <<>>
    /\ running = EmptyBag
    /\ sched.pc = "load"
    /\ \A u \in DOMAIN store :
          store[u].status \notin {"waiting", "processing"}

\* C28: once the process has come to rest, no local folder and no stored
\* object is left under an id that the reaper has deleted and that is not
\* in the registry: what a handler wrote after the reap has been removed.
NoArtifactOutlivesReapedTask ==
    \A t \in reaped :
        (AtRest /\ boot = "up" /\ t \notin DOMAIN store) =>
            t \notin temp \cup blobs

====
